---- MODULE Spec2Model ----
(***************************************************************************)
(* A model of the document downloader (src/downloader.py, src/config.py):  *)
(* the filename sanitizer, the document cache, the retrying fetch of the   *)
(* listing page, the batch window of main(), and the sequential and        *)
(* thread-pool orchestrators around download_document.                     *)
(*                                                                         *)
(* Strings the code inspects character by character (document references,  *)
(* file names) are sequences of one-character strings.  Python's None is   *)
(* the empty tuple and a present value x is <<x>>.                         *)
(***************************************************************************)
EXTENDS Integers, Sequences, FiniteSets, TLC

VARIABLES
    pc,                 \* position of main(): see the actions below
    retry_attempts,     \* config.RETRY_ATTEMPTS of this run
    max_workers,        \* config.MAX_WORKERS of this run
    use_cache_cfg,      \* config.USE_CACHE
    args,               \* the parsed command line (parallel, start, end, batch, no_cache)
    env,                \* what the network and the file system can do in this run
    page,               \* the listing page the portal serves
    now,                \* time.time(), in seconds
    cache_file,         \* the cache file: content (JSON tokens) and mtime
    cache_log,          \* the last save_document_cache / load_document_cache call
    listing,            \* get_page_content(START_URL): attempt, sleeps, result
    all_documents,      \* main(): all_documents (None or a list of descriptors)
    filtered_documents, \* main(): filtered_documents, a list of <<guid, doc_ref>>
    start_idx,          \* main(): start_idx
    end_idx,            \* main(): end_idx (None or an integer)
    batch_documents,    \* download_*: documents[start_idx:end_idx]
    tasks,              \* one record per element of batch_documents
    num_threads,        \* threads of the ThreadPoolExecutor
    total_downloaded,   \* download_*: total_downloaded
    failed_downloads,   \* download_parallel: failed_downloads
    ret,                \* what download_* returned to main()
    disk,               \* the download directory: file name -> file
    run,                \* 1 in the first invocation, 2 in a re-run
    first_run,          \* what the first invocation returned and how many GETs it made
    exit_status,        \* the exit status of the process, None while it runs
    initial,            \* the cache file and the download directory at the start
    sanitizer           \* a call of sanitize_filename on its own: name and result

cfgVars   == <<retry_attempts, max_workers, use_cache_cfg, args, env, page>>
cacheVars == <<now, cache_file, cache_log>>
mainVars  == <<listing, all_documents, filtered_documents, start_idx, end_idx>>
orchVars  == <<batch_documents, tasks, num_threads, total_downloaded,
               failed_downloads, ret>>
runVars   == <<run, first_run, exit_status, initial, sanitizer>>
vars      == <<pc, cfgVars, cacheVars, mainVars, orchVars, disk, runVars>>

----------------------------------------------------------------------------
(* Bounds of the model *)

MaxTasks == 3           \* longest batch handed to the orchestrators
MaxRetryAttempts == 2   \* largest RETRY_ATTEMPTS tried with a batch of tasks
MaxFetchAttempts == 3   \* largest RETRY_ATTEMPTS tried with a single fetch
MaxWorkers == 2         \* largest MAX_WORKERS tried
MaxDocs == 2            \* longest descriptor list saved to the cache
MaxLen == 4             \* longest filtered list a window is cut from
MaxBatch == 3           \* largest --batch tried
MaxNameLen == 3         \* longest name spelled out of the small alphabet

----------------------------------------------------------------------------
(* Python values *)

None == << >>
Some(x) == <<x>>
Min(a, b) == IF a <= b THEN a ELSE b
Max(a, b) == IF a >= b THEN a ELSE b

RECURSIVE Pow2(_)
Pow2(n) == IF n <= 0 THEN 1 ELSE 2 * Pow2(n - 1)

RECURSIVE Repeat(_, _)
Repeat(c, n) == IF n <= 0 THEN << >> ELSE <<c>> \o Repeat(c, n - 1)

\* seq[start:end] for integers start and end, negative ones counting from the end
PySlice(seq, start, end) ==
    LET n == Len(seq)
        norm(k) == IF k < 0 THEN Max(n + k, 0) ELSE Min(k, n)
    IN  SubSeq(seq, norm(start) + 1, norm(end))

----------------------------------------------------------------------------
(* sanitize_filename *)

UpperCase == <<"A","B","C","D","E","F","G","H","I","J","K","L","M",
               "N","O","P","Q","R","S","T","U","V","W","X","Y","Z">>
LowerCase == <<"a","b","c","d","e","f","g","h","i","j","k","l","m",
               "n","o","p","q","r","s","t","u","v","w","x","y","z">>

\* str.lower() on one character
LowerChar(c) ==
    IF \E i \in 1..26 : UpperCase[i] = c
    THEN LowerCase[CHOOSE i \in 1..26 : UpperCase[i] = c]
    ELSE c

Lower(s) == [i \in 1..Len(s) |-> LowerChar(s[i])]

EndsWith(s, suffix) ==
    /\ Len(s) >= Len(suffix)
    /\ SubSeq(s, Len(s) - Len(suffix) + 1, Len(s)) = suffix

\* the character class of re.sub(r'[\\/*?:"<>|]', "_", name)
InvalidChars == {"\\", "/", "*", "?", ":", "\"", "<", ">", "|"}

PdfSuffix == <<".", "p", "d", "f">>

\* sanitized[:100]
NameLimit == 100

sanitize_filename(name) ==
    LET replaced  == [i \in 1..Len(name) |->
                        IF name[i] \in InvalidChars THEN "_" ELSE name[i]]
        sanitized == SubSeq(replaced, 1, Min(NameLimit, Len(replaced)))
    IN  IF EndsWith(Lower(sanitized), PdfSuffix)
        THEN sanitized
        ELSE sanitized \o PdfSuffix

----------------------------------------------------------------------------
(* The documents of the model.  A task is <<guid, doc_ref>>; the first two *)
(* references differ only in a character the sanitizer replaces.           *)

DocRefs == << <<"a", "/", "b">>, <<"a", "_", "b">>, <<"c">>, <<"d", ".", "P", "D", "F">> >>
Guids   == << <<"g", "1">>, <<"g", "2">>, <<"g", "3">>, <<"g", "4">> >>

Universe == {<<Guids[i], DocRefs[i]>> : i \in 1..MaxTasks}

\* every list of distinct documents of at most MaxTasks elements
RECURSIVE ListsOf(_, _)
ListsOf(S, n) ==
    IF n = 0 THEN {<< >>}
    ELSE LET shorter == ListsOf(S, n - 1)
         IN  shorter \cup
             {Append(l, d) : l \in {x \in shorter : Len(x) = n - 1},
                             d \in S}

Distinct(l) == \A i, j \in 1..Len(l) : i # j => l[i] # l[j]

Batches == {l \in ListsOf(Universe, MaxTasks) : Len(l) >= 1 /\ Distinct(l)}

FileNames == {sanitize_filename(d[2]) : d \in Universe}

\* a file of the download directory
NoFile == [exists |-> FALSE, doc |-> << >>, complete |-> FALSE]
FileOf(guid, complete) == [exists |-> TRUE, doc |-> guid, complete |-> complete]
\* a file that was there before the first run
OldFile == FileOf(<<"old">>, TRUE)

\* an existence check that looks at the wrong place and never finds the file
path_exists_never(d, filename) == FALSE

\* os.path.exists(file_path)
path_exists(d, filename) == d[filename].exists

----------------------------------------------------------------------------
(* The document cache: json.dump / json.load on a list of descriptors.     *)
(* A descriptor is a dict, here the sequence of its <<key, value>> pairs;  *)
(* the file holds the JSON text as a sequence of tokens.                   *)

\* config.CACHE_EXPIRY
CACHE_EXPIRY == 3600

LB == <<"[">>
RB == <<"]">>
LC == <<"{">>
RC == <<"}">>
COMMA == <<",">>
COLON == <<":">>
Str(v) == <<"s", v>>

RECURSIVE EncodePairs(_)
EncodePairs(d) ==
    IF d = << >> THEN << >>
    ELSE <<Str(d[1][1]), COLON, Str(d[1][2])>>
         \o (IF Len(d) > 1 THEN <<COMMA>> ELSE << >>)
         \o EncodePairs(Tail(d))

EncodeObject(d) == <<LC>> \o EncodePairs(d) \o <<RC>>

RECURSIVE EncodeItems(_)
EncodeItems(l) ==
    IF l = << >> THEN << >>
    ELSE EncodeObject(l[1])
         \o (IF Len(l) > 1 THEN <<COMMA>> ELSE << >>)
         \o EncodeItems(Tail(l))

\* an encoder that leaves out the last element of the list
json_dump_short(documents) ==
    <<LB>> \o EncodeItems(SubSeq(documents, 1, Len(documents) - 1)) \o <<RB>>

\* json.dump(documents, f): the text written
json_dump(documents) == <<LB>> \o EncodeItems(documents) \o <<RB>>

ParseFail == [ok |-> FALSE, val |-> << >>, next |-> 0]
Parsed(v, n) == [ok |-> TRUE, val |-> v, next |-> n]
TokAt(toks, i) == IF i >= 1 /\ i <= Len(toks) THEN toks[i][1] ELSE "EOF"

RECURSIVE ParsePairs(_, _, _)
ParsePairs(toks, i, acc) ==
    IF TokAt(toks, i) = "s" /\ TokAt(toks, i + 1) = ":" /\ TokAt(toks, i + 2) = "s"
    THEN LET more == Append(acc, <<toks[i][2], toks[i + 2][2]>>)
         IN  IF TokAt(toks, i + 3) = "," THEN ParsePairs(toks, i + 4, more)
             ELSE IF TokAt(toks, i + 3) = "}" THEN Parsed(more, i + 4)
             ELSE ParseFail
    ELSE ParseFail

ParseObject(toks, i) ==
    IF TokAt(toks, i) # "{" THEN ParseFail
    ELSE IF TokAt(toks, i + 1) = "}" THEN Parsed(<< >>, i + 2)
    ELSE ParsePairs(toks, i + 1, << >>)

RECURSIVE ParseItems(_, _, _)
ParseItems(toks, i, acc) ==
    LET o == ParseObject(toks, i)
    IN  IF ~o.ok THEN ParseFail
        ELSE IF TokAt(toks, o.next) = "," THEN ParseItems(toks, o.next + 1, Append(acc, o.val))
        ELSE IF TokAt(toks, o.next) = "]" THEN Parsed(Append(acc, o.val), o.next + 1)
        ELSE ParseFail

\* a parser that takes a text cut short for the empty list
json_load_truncated(toks) ==
    LET r == IF TokAt(toks, 1) # "[" THEN ParseFail
             ELSE IF TokAt(toks, 2) = "]" THEN Parsed(<< >>, 3)
             ELSE ParseItems(toks, 2, << >>)
    IN  IF r.ok /\ r.next = Len(toks) + 1 THEN r
        ELSE IF TokAt(toks, 1) = "[" THEN Parsed(<< >>, Len(toks) + 1)
        ELSE ParseFail

\* json.load(f): the value, or ok = FALSE where json.load raises
json_load(toks) ==
    LET r == IF TokAt(toks, 1) # "[" THEN ParseFail
             ELSE IF TokAt(toks, 2) = "]" THEN Parsed(<< >>, 3)
             ELSE ParseItems(toks, 2, << >>)
    IN  IF r.ok /\ r.next = Len(toks) + 1 THEN r ELSE ParseFail

NoCacheFile == [exists |-> FALSE, content |-> << >>, mtime |-> 0]
CacheFileOf(content, mtime) == [exists |-> TRUE, content |-> content, mtime |-> mtime]

\* the subtraction the wrong way round: cache_time - time.time() > CACHE_EXPIRY
CacheExpiredReversed(age) == (0 - age) > CACHE_EXPIRY

\* if time.time() - cache_time > CACHE_EXPIRY
CacheExpired(age) == age > CACHE_EXPIRY

\* a load that takes a file it cannot parse for an empty list
load_document_cache_lenient(file, time, read_ok) ==
    IF ~use_cache_cfg THEN None
    ELSE IF ~file.exists THEN None
    ELSE IF CacheExpired(time - file.mtime) THEN None
    ELSE IF ~read_ok THEN None
    ELSE LET data == json_load(file.content)
         IN  IF data.ok THEN Some(data.val) ELSE Some(<< >>)

\* load_document_cache(): None, or the list; read_ok is whether the file
\* could be opened and read
load_document_cache(file, time, read_ok) ==
    IF ~use_cache_cfg THEN None
    ELSE IF ~file.exists THEN None
    ELSE IF CacheExpired(time - file.mtime) THEN None
    ELSE IF ~read_ok THEN None
    ELSE LET data == json_load(file.content)
         IN  IF data.ok THEN Some(data.val) ELSE None

\* save_document_cache(documents): the files it can leave behind.  open(..., 'w')
\* fails and leaves the file alone, or truncates it; the dump then writes all
\* of the text or stops with an error after a part of it.
SaveResults(file, documents, time) ==
    IF ~use_cache_cfg THEN {file}
    ELSE {CacheFileOf(json_dump(documents), time)}
         \cup (IF "cache_open_error" \in env.faults THEN {file} ELSE {})
         \cup (IF "cache_write_error" \in env.faults
               THEN {CacheFileOf(SubSeq(json_dump(documents), 1, k), time) :
                        k \in 0..(Len(json_dump(documents)) - 1)}
               ELSE {})

\* whether the file is what a completed save_document_cache(documents) leaves
SaveCompleted(file, documents, time) ==
    use_cache_cfg /\ file = CacheFileOf(json_dump(documents), time)

----------------------------------------------------------------------------
(* HTTP: what session.get can do, and response.raise_for_status() *)

Response(status) == [kind |-> "response", status |-> status]
Exception(name)  == [kind |-> "exception", status |-> 0, name |-> name]
NoGet            == [kind |-> "none", status |-> 0]

\* requests.Response.raise_for_status: raises HTTPError for 4xx and 5xx only
raise_for_status(status) == status >= 400 /\ status < 600

\* an attempt ends in the handler of requests.exceptions.RequestException
AttemptRaises(o) == o.kind = "exception" \/ raise_for_status(o.status)

\* 2 * attempt written for 2 ** attempt
BackoffTimes(attempt) == 2 * attempt

\* wait_time = 2 ** attempt
Backoff(attempt) == Pow2(attempt)

\* if attempt < RETRY_ATTEMPTS - 1
MoreAttempts(attempt, n) == attempt < n - 1

----------------------------------------------------------------------------
(* Descriptors, the listing page, the filter and the batch window *)

\* config.DOCUMENT_TYPE_FILTER = "Planning Comments"
DOCUMENT_TYPE_FILTER ==
    <<"P","l","a","n","n","i","n","g"," ","C","o","m","m","e","n","t","s">>
OtherType == <<"D","e","c","i","s","i","o","n">>
LateType == <<"L","a","t","e"," ">> \o DOCUMENT_TYPE_FILTER

Descriptor(guid, ref, type) ==
    << <<"Guid", guid>>, <<"Doc_Ref2", ref>>, <<"Doc_Type", type>> >>

\* 'key' in doc, doc[key], doc.get(key, default)
HasKey(doc, key) == \E n \in 1..Len(doc) : doc[n][1] = key
Get(doc, key) == doc[CHOOSE n \in 1..Len(doc) : doc[n][1] = key][2]
GetOr(doc, key, default) == IF HasKey(doc, key) THEN Get(doc, key) ELSE default

\* sub in s, for strings
Contains(s, sub) ==
    \E i \in 0..(Len(s) - Len(sub)) : SubSeq(s, i + 1, i + Len(sub)) = sub

Matches(doc) ==
    /\ HasKey(doc, "Guid")
    /\ HasKey(doc, "Doc_Ref2")
    /\ Contains(GetOr(doc, "Doc_Type", << >>), DOCUMENT_TYPE_FILTER)

\* the loop that builds filtered_documents
RECURSIVE FilterDocuments(_)
FilterDocuments(docs) ==
    IF docs = << >> THEN << >>
    ELSE (IF Matches(docs[1])
          THEN << <<Get(docs[1], "Guid"), Get(docs[1], "Doc_Ref2")>> >>
          ELSE << >>)
         \o FilterDocuments(Tail(docs))

\* extract_document_data(html_content): the rows of the page's model, or []
extract_document_data(html) == IF html.kind = "rows" THEN html.rows ELSE << >>

\* not html_content
Falsy(content) == content = None \/ content[1].kind = "empty"

\* batch_size = args.batch if args.batch > 0 else 0
BatchSize(batch) == IF batch > 0 THEN batch ELSE 0

\* a window end that is not clamped to the length of the list
WindowEndUnclamped(start, end, batch, length) ==
    IF BatchSize(batch) > 0 /\ end = None THEN Some(start + BatchSize(batch)) ELSE end

\* if batch_size > 0 and end_idx is None:
\*     end_idx = min(start_idx + batch_size, len(filtered_documents))
WindowEnd(start, end, batch, length) ==
    IF BatchSize(batch) > 0 /\ end = None
    THEN Some(Min(start + BatchSize(batch), length))
    ELSE end

----------------------------------------------------------------------------
(* main() up to the call of download_sequential / download_parallel *)

\* use_cache = USE_CACHE and not args.no_cache
use_cache == use_cache_cfg /\ ~args.no_cache

ReadOutcomes == IF "cache_read_error" \in env.faults THEN BOOLEAN ELSE {TRUE}

LoadRecord(file, time, read_ok) ==
    Some([exists |-> file.exists, age |-> time - file.mtime, read_ok |-> read_ok,
          result |-> load_document_cache(file, time, read_ok)])

\* what is known of the file after save_document_cache(documents) left `file`
SavedAfter(file, documents) ==
    IF SaveCompleted(file, documents, now) THEN Some(documents)
    ELSE IF file = cache_file THEN cache_log.saved
    ELSE None

\* main(): the arguments, the download directory, load_document_cache()
MainStart ==
    /\ pc = "start"
    /\ IF use_cache
       THEN \E read_ok \in ReadOutcomes :
              /\ cache_log' = [cache_log EXCEPT !.load = LoadRecord(cache_file, now, read_ok)]
              /\ all_documents' = load_document_cache(cache_file, now, read_ok)
       ELSE /\ all_documents' = None
            /\ UNCHANGED cache_log
    /\ pc' = IF all_documents' = None THEN "fetch" ELSE "filter"
    /\ UNCHANGED <<cfgVars, now, cache_file, listing, filtered_documents, start_idx,
                   end_idx, orchVars, disk, runVars>>

\* get_page_content(START_URL): one pass of the retry loop, or, with no
\* attempt configured, the fall through the loop to an implicit None
FetchListing ==
    /\ pc = "fetch"
    /\ IF retry_attempts <= 0
       THEN /\ listing' = [listing EXCEPT !.result = None]
            /\ pc' = "fetched"
       ELSE \E o \in env.get :
              LET l == [listing EXCEPT !.gets = @ + 1, !.status = o]
              IN  IF AttemptRaises(o)
                  THEN IF MoreAttempts(l.attempt, retry_attempts)
                       THEN /\ listing' = [l EXCEPT !.slept = Append(@, Backoff(l.attempt)),
                                                   !.attempt = @ + 1, !.nfail = @ + 1]
                            /\ pc' = pc
                       ELSE /\ listing' = [l EXCEPT !.result = None, !.nfail = @ + 1]
                            /\ pc' = "fetched"
                  ELSE /\ listing' = [l EXCEPT !.result = Some(page)]
                       /\ pc' = "fetched"
    /\ UNCHANGED <<cfgVars, cacheVars, all_documents, filtered_documents, start_idx,
                   end_idx, orchVars, disk, runVars>>

\* a main() that goes on with an empty list when the page did not arrive
MainAfterFetchGoOn ==
    /\ pc = "fetched"
    /\ LET documents == IF Falsy(listing.result) THEN << >>
                        ELSE extract_document_data(listing.result[1])
       IN  /\ pc' = "filter"
           /\ all_documents' = Some(documents)
           /\ IF use_cache
              THEN \E f \in SaveResults(cache_file, documents, now) :
                     /\ cache_file' = f
                     /\ cache_log' = [saved |-> SavedAfter(f, documents), load |-> None]
              ELSE UNCHANGED <<cache_file, cache_log>>
    /\ UNCHANGED <<cfgVars, now, listing, filtered_documents, start_idx, end_idx,
                   orchVars, disk, runVars>>

\* main(): give up when the page did not arrive, else extract the
\* descriptors and save them to the cache
MainAfterFetch ==
    /\ pc = "fetched"
    /\ IF Falsy(listing.result)
       THEN /\ pc' = "failed"
            /\ UNCHANGED <<all_documents, cache_file, cache_log>>
       ELSE LET documents == extract_document_data(listing.result[1])
            IN  /\ pc' = "filter"
                /\ all_documents' = Some(documents)
                /\ IF use_cache
                   THEN \E f \in SaveResults(cache_file, documents, now) :
                          /\ cache_file' = f
                          /\ cache_log' = [saved |-> SavedAfter(f, documents), load |-> None]
                   ELSE UNCHANGED <<cache_file, cache_log>>
    /\ UNCHANGED <<cfgVars, now, listing, filtered_documents, start_idx, end_idx,
                   orchVars, disk, runVars>>

\* main(): the type filter and the start/end/batch window
MainFilterWindow ==
    /\ pc = "filter"
    /\ filtered_documents' = FilterDocuments(all_documents[1])
    /\ start_idx' = args.start
    /\ end_idx' = WindowEnd(args.start, args.end, args.batch, Len(filtered_documents'))
    /\ pc' = "download"
    /\ UNCHANGED <<cfgVars, cacheVars, listing, all_documents, orchVars, disk, runVars>>

----------------------------------------------------------------------------
(* The cache functions called on their own, with time passing in between *)

TimePoints == {0, 1, CACHE_EXPIRY - 1, CACHE_EXPIRY, CACHE_EXPIRY + 1,
               2 * CACHE_EXPIRY, 2 * CACHE_EXPIRY + 1}

CallSave(documents) ==
    /\ pc = "cache"
    /\ \E f \in SaveResults(cache_file, documents, now) :
         /\ cache_file' = f
         /\ cache_log' = [saved |-> SavedAfter(f, documents), load |-> None]
    /\ UNCHANGED <<pc, cfgVars, now, mainVars, orchVars, disk, runVars>>

CallLoad ==
    /\ pc = "cache"
    /\ \E read_ok \in ReadOutcomes :
         cache_log' = [cache_log EXCEPT !.load = LoadRecord(cache_file, now, read_ok)]
    /\ UNCHANGED <<pc, cfgVars, now, cache_file, mainVars, orchVars, disk, runVars>>

Tick ==
    /\ pc = "cache"
    /\ \E t \in TimePoints : t > now /\ now' = t
    /\ UNCHANGED <<pc, cfgVars, cache_file, cache_log, mainVars, orchVars, disk, runVars>>

----------------------------------------------------------------------------
(* download_document: one record per task *)

\* def download_document(..., add_delay=True); neither caller passes add_delay
add_delay == TRUE

NewTask == [pc |-> "queued", attempt |-> 0, slept |-> << >>, delayed |-> FALSE,
            gets |-> 0, nfail |-> 0, status |-> NoGet, oserr |-> FALSE,
            result |-> None]

Outcome(success, name) == Some([success |-> success, name |-> name])

FileName(doc) == sanitize_filename(doc[2])

\* except (RequestException, Timeout) inside the loop, and the outer
\* except RequestException: sleep and retry, or return (False, doc_ref)
OnRequestException(t, doc) ==
    IF MoreAttempts(t.attempt, retry_attempts)
    THEN [t EXCEPT !.pc = "running", !.nfail = @ + 1,
                   !.slept = Append(@, Backoff(t.attempt)),
                   !.attempt = @ + 1]
    ELSE [t EXCEPT !.pc = "returned", !.nfail = @ + 1,
                   !.result = Outcome(FALSE, doc[2])]

\* except Exception: return (False, doc_ref), no retry
OnException(t, doc) ==
    [t EXCEPT !.pc = "returned", !.oserr = TRUE,
              !.result = Outcome(FALSE, doc[2])]

InFlight == {i \in 1..Len(tasks) : tasks[i].pc \in {"running", "writing"}}

\* a pool that starts a thread for every work item
PoolThreadsUnbounded(n) == n

\* the thread pool: executor.submit starts a thread per work item until
\* max_workers threads exist
PoolThreads(n) == Min(n, max_workers)

\* documents[start_idx:end_idx], end_idx defaulting to len(documents)
BatchOf(documents, start, end) ==
    PySlice(documents, start, IF end = None THEN Len(documents) ELSE end[1])

\* download_sequential / download_parallel up to the first task: slice the
\* batch, reset the counters, and (parallel) submit every task to the pool
EnterDownload ==
    /\ pc = "download"
    /\ LET batch == BatchOf(filtered_documents, start_idx, end_idx)
       IN  /\ batch_documents' = batch
           /\ tasks' = [i \in 1..Len(batch) |-> NewTask]
           /\ num_threads' = IF args.parallel THEN PoolThreads(Len(batch)) ELSE 0
    /\ total_downloaded' = 0
    /\ failed_downloads' = << >>
    /\ pc' = "downloading"
    /\ UNCHANGED <<cfgVars, cacheVars, mainVars, ret, disk, runVars>>

\* when task i may start: the pool hands out work in submission order to a
\* free thread; the sequential loop starts a task when the one before it has
\* been accounted for
MayStart(i) ==
    /\ tasks[i].pc = "queued"
    /\ \A j \in 1..(i - 1) : tasks[j].pc # "queued"
    /\ IF args.parallel
       THEN Cardinality(InFlight) < num_threads
       ELSE \A j \in 1..(i - 1) : tasks[j].pc = "collected"

\* download_document up to the retry loop: the name, the existence check,
\* the jittered delay; with no attempt configured the loop body never runs
\* and the function returns None
StartTask(i) ==
    /\ pc = "downloading"
    /\ i \in 1..Len(tasks)
    /\ MayStart(i)
    /\ LET doc == batch_documents[i]
           filename == FileName(doc)
           t == tasks[i]
       IN  tasks' = [tasks EXCEPT ![i] =
             IF path_exists(disk, filename)
             THEN [t EXCEPT !.pc = "returned", !.result = Outcome(TRUE, filename)]
             ELSE IF retry_attempts <= 0
             THEN [t EXCEPT !.pc = "returned", !.delayed = add_delay, !.result = None]
             ELSE [t EXCEPT !.pc = "running", !.delayed = add_delay]]
    /\ UNCHANGED <<pc, cfgVars, cacheVars, mainVars, batch_documents, num_threads,
                   total_downloaded, failed_downloads, ret, disk, runVars>>

\* open(file_path, 'wb') truncates the file; a second writer of the same
\* path makes the content a mix of both
Opened(i, filename, guid) ==
    IF \E j \in 1..Len(tasks) :
          j # i /\ tasks[j].pc = "writing" /\ FileName(batch_documents[j]) = filename
    THEN FileOf(<<"mixed">>, FALSE)
    ELSE FileOf(guid, FALSE)

\* one pass of the retry loop up to the open: session.get, raise_for_status,
\* the content-type warning, open(file_path, 'wb')
AttemptGet(i) ==
    /\ pc = "downloading"
    /\ i \in 1..Len(tasks)
    /\ tasks[i].pc = "running"
    /\ LET doc == batch_documents[i]
           filename == FileName(doc)
       IN  \E o \in env.get :
             LET t == [tasks[i] EXCEPT !.gets = @ + 1, !.status = o]
             IN  IF AttemptRaises(o)
                 THEN /\ tasks' = [tasks EXCEPT ![i] = OnRequestException(t, doc)]
                      /\ disk' = disk
                 ELSE \/ /\ tasks' = [tasks EXCEPT ![i] = [t EXCEPT !.pc = "writing"]]
                         /\ disk' = [disk EXCEPT ![filename] = Opened(i, filename, doc[1])]
                      \/ /\ "open_error" \in env.faults
                         /\ tasks' = [tasks EXCEPT ![i] = OnException(t, doc)]
                         /\ disk' = disk
    /\ UNCHANGED <<pc, cfgVars, cacheVars, mainVars, batch_documents, num_threads,
                   total_downloaded, failed_downloads, ret, runVars>>

\* the file after its writer wrote the last chunk and closed it
Written(file, guid) == IF file.doc = guid THEN FileOf(guid, TRUE) ELSE file

\* the rest of the pass: stream the body into the file and return
\* (True, filename); a stream error is a RequestException, a write error is not
StreamBody(i) ==
    /\ pc = "downloading"
    /\ i \in 1..Len(tasks)
    /\ tasks[i].pc = "writing"
    /\ LET doc == batch_documents[i]
           filename == FileName(doc)
           t == tasks[i]
       IN  \/ /\ tasks' = [tasks EXCEPT ![i] =
                    [t EXCEPT !.pc = "returned", !.result = Outcome(TRUE, filename)]]
              /\ disk' = [disk EXCEPT ![filename] = Written(@, doc[1])]
           \/ /\ "stream_error" \in env.faults
              /\ tasks' = [tasks EXCEPT ![i] = OnRequestException(t, doc)]
              /\ disk' = disk
           \/ /\ "write_error" \in env.faults
              /\ tasks' = [tasks EXCEPT ![i] = OnException(t, doc)]
              /\ disk' = disk
    /\ UNCHANGED <<pc, cfgVars, cacheVars, mainVars, batch_documents, num_threads,
                   total_downloaded, failed_downloads, ret, runVars>>

\* the failure recorded under the document's id instead of its reference
RecordFailedGuid(failed, doc) == Append(failed, doc[1])

\* failed_downloads.append(doc_ref)
RecordFailed(failed, doc) == Append(failed, doc[2])

\* download_sequential: success, _ = download_document(...); unpacking None
\* raises TypeError, which nothing catches
CollectSequential(i) ==
    /\ ~args.parallel
    /\ IF tasks[i].result = None
       THEN /\ pc' = "crashed"
            /\ UNCHANGED <<tasks, total_downloaded>>
       ELSE /\ pc' = pc
            /\ tasks' = [tasks EXCEPT ![i].pc = "collected"]
            /\ total_downloaded' =
                 IF tasks[i].result[1].success THEN total_downloaded + 1
                 ELSE total_downloaded
    /\ UNCHANGED failed_downloads

\* download_parallel: the body of the as_completed loop
CollectParallel(i) ==
    /\ args.parallel
    /\ pc' = pc
    /\ tasks' = [tasks EXCEPT ![i].pc = "collected"]
    /\ IF tasks[i].result # None /\ tasks[i].result[1].success
       THEN /\ total_downloaded' = total_downloaded + 1
            /\ UNCHANGED failed_downloads
       ELSE /\ failed_downloads' = RecordFailed(failed_downloads, batch_documents[i])
            /\ UNCHANGED total_downloaded

Collect(i) ==
    /\ pc = "downloading"
    /\ i \in 1..Len(tasks)
    /\ tasks[i].pc = "returned"
    /\ CollectSequential(i) \/ CollectParallel(i)
    /\ UNCHANGED <<cfgVars, cacheVars, mainVars, batch_documents, num_threads,
                   ret, disk, runVars>>

\* the sentinel for "no list returned"
NoList == None

\* return total_downloaded (sequential) / total_downloaded, failed_downloads
\* (parallel), and main()'s report after it
ReturnValue ==
    IF args.parallel
    THEN [total |-> total_downloaded, failed |-> Some(failed_downloads)]
    ELSE [total |-> total_downloaded, failed |-> NoList]

FinishDownload ==
    /\ pc = "downloading"
    /\ \A i \in 1..Len(tasks) : tasks[i].pc = "collected"
    /\ ret' = Some(ReturnValue)
    /\ pc' = "done"
    /\ UNCHANGED <<cfgVars, cacheVars, mainVars, batch_documents, tasks, num_threads,
                   total_downloaded, failed_downloads, disk, runVars>>

\* GETs issued for documents in the current invocation
RECURSIVE SumGets(_)
SumGets(n) == IF n = 0 THEN 0 ELSE tasks[n].gets + SumGets(n - 1)
DocumentGets == SumGets(Len(tasks))

\* the same command is run again: same task list, same download directory
Rerun ==
    /\ pc = "done"
    /\ run = 1
    /\ run' = 2
    /\ first_run' = Some([total |-> ret[1].total, n |-> Len(batch_documents),
                          gets |-> DocumentGets])
    /\ pc' = "download"
    /\ tasks' = << >>
    /\ batch_documents' = << >>
    /\ num_threads' = 0
    /\ total_downloaded' = 0
    /\ failed_downloads' = << >>
    /\ ret' = None
    /\ UNCHANGED <<cfgVars, cacheVars, mainVars, disk, exit_status, initial, sanitizer>>

----------------------------------------------------------------------------
(* The orchestrators on their own: main() has filtered the listing and     *)
(* calls download_sequential or download_parallel on the whole list.       *)

AllGets   == {Response(200), Response(304), Response(404), Response(500),
              Exception("Timeout"), Exception("ConnectionError")}
AllFaults == {"open_error", "stream_error", "write_error"}

NoArgs == [parallel |-> FALSE, start |-> 0, end |-> None, batch |-> 0,
           no_cache |-> FALSE]
NoListing == [attempt |-> 0, slept |-> << >>, gets |-> 0, nfail |-> 0,
              status |-> NoGet, result |-> None]
NoPage == [kind |-> "rows", rows |-> << >>]
NoCacheLog == [saved |-> None, load |-> None]
NoCall == [name |-> << >>, sanitized |-> None]

InitIdle ==
    /\ now = 0
    /\ cache_file = NoCacheFile
    /\ cache_log = NoCacheLog
    /\ listing = NoListing
    /\ batch_documents = << >>
    /\ tasks = << >>
    /\ num_threads = 0
    /\ total_downloaded = 0
    /\ failed_downloads = << >>
    /\ ret = None
    /\ run = 1
    /\ first_run = None
    /\ exit_status = None
    /\ sanitizer = NoCall

\* the cache file and the download directory the run finds
InitHistory == initial = [cache_file |-> cache_file, disk |-> disk]

Init ==
    /\ InitIdle
    /\ all_documents = None
    /\ pc = "download"
    /\ use_cache_cfg = TRUE
    /\ page = NoPage
    /\ retry_attempts \in 0..MaxRetryAttempts
    /\ max_workers \in 1..MaxWorkers
    /\ \E parallel \in BOOLEAN :
         /\ args = [NoArgs EXCEPT !.parallel = parallel]
         /\ parallel \/ max_workers = 1
    /\ env = [get |-> {Response(200), Exception("Timeout")}, faults |-> AllFaults]
    /\ filtered_documents \in Batches
    /\ start_idx = 0
    /\ end_idx = None
    /\ disk \in [FileNames -> {NoFile, OldFile}]
    /\ InitHistory

Next ==
    \/ EnterDownload
    \/ \E i \in 1..MaxTasks : StartTask(i)
    \/ \E i \in 1..MaxTasks : AttemptGet(i)
    \/ \E i \in 1..MaxTasks : StreamBody(i)
    \/ \E i \in 1..MaxTasks : Collect(i)
    \/ FinishDownload
    \/ Rerun

Spec == Init /\ [][Next]_vars

\* one invocation of an orchestrator, with every thread and the collecting
\* loop taking its steps: the pool runs a submitted task when a thread is
\* free, a GET returns or times out, the loop picks up finished tasks
NextLive ==
    \/ EnterDownload
    \/ \E i \in 1..MaxTasks : StartTask(i)
    \/ \E i \in 1..MaxTasks : AttemptGet(i)
    \/ \E i \in 1..MaxTasks : StreamBody(i)
    \/ \E i \in 1..MaxTasks : Collect(i)
    \/ FinishDownload

SpecLive == Init /\ [][NextLive]_vars /\ WF_vars(NextLive)

----------------------------------------------------------------------------
(* The cache on its own: saves, loads and the passing of time *)

CacheFaults == {"cache_open_error", "cache_write_error", "cache_read_error"}

CacheDescriptors ==
    {Descriptor(Guids[1], DocRefs[1], DOCUMENT_TYPE_FILTER),
     << <<"Guid", Guids[2]>>, <<"Doc_Ref2", DocRefs[2]>> >>}

DescriptorLists == ListsOf(CacheDescriptors, MaxDocs)

InitCache ==
    /\ InitIdle
    /\ all_documents = None
    /\ pc = "cache"
    /\ use_cache_cfg \in BOOLEAN
    /\ page = NoPage
    /\ retry_attempts = MaxFetchAttempts
    /\ max_workers = 1
    /\ args = NoArgs
    /\ env = [get |-> {Response(200)}, faults |-> CacheFaults]
    /\ filtered_documents = << >>
    /\ start_idx = 0
    /\ end_idx = None
    /\ disk = [f \in FileNames |-> NoFile]
    /\ InitHistory

NextCache ==
    \/ \E documents \in DescriptorLists : CallSave(documents)
    \/ CallLoad
    \/ Tick

SpecCache == InitCache /\ [][NextCache]_vars

----------------------------------------------------------------------------
(* The batch window on its own: main() from the filter to the slice *)

DigitChars == <<"0", "1", "2", "3", "4", "5", "6", "7", "8", "9">>

RECURSIVE Decimal(_)
Decimal(n) ==
    IF n < 10 THEN <<DigitChars[n + 1]>>
    ELSE Decimal(n \div 10) \o <<DigitChars[(n % 10) + 1]>>

\* a listing of n documents that pass the filter, after one that does not
ListingOf(n) ==
    <<Descriptor(<<"x">>, <<"x">>, OtherType)>>
    \o [i \in 1..n |->
          Descriptor(<<"g">> \o Decimal(i), <<"r">> \o Decimal(i),
                     IF i % 2 = 0 THEN LateType ELSE DOCUMENT_TYPE_FILTER)]

\* the example of the specification: 100 documents, --start 20 --batch 30
ExampleLen == 100
ExampleStart == 20
ExampleBatch == 30

InitWindow ==
    /\ InitIdle
    /\ pc = "filter"
    /\ use_cache_cfg = TRUE
    /\ page = NoPage
    /\ retry_attempts = MaxFetchAttempts
    /\ max_workers = MaxWorkers
    /\ env = [get |-> {Response(200)}, faults |-> {}]
    /\ filtered_documents = << >>
    /\ start_idx = 0
    /\ end_idx = None
    /\ disk = [f \in FileNames |-> NoFile]
    /\ InitHistory
    /\ \E parallel \in BOOLEAN :
         \/ /\ \E n \in 0..MaxLen : all_documents = Some(ListingOf(n))
            /\ \E s \in (-1)..(MaxLen + 1), b \in (-1)..MaxBatch,
                  e \in {None} \cup {Some(x) : x \in (-1)..(MaxLen + 1)} :
                 args = [NoArgs EXCEPT !.parallel = parallel, !.start = s,
                                       !.end = e, !.batch = b]
         \/ /\ all_documents = Some(ListingOf(ExampleLen))
            /\ args = [NoArgs EXCEPT !.parallel = parallel, !.start = ExampleStart,
                                     !.batch = ExampleBatch]

NextWindow ==
    \/ MainFilterWindow
    \/ EnterDownload

SpecWindow == InitWindow /\ [][NextWindow]_vars

----------------------------------------------------------------------------
(* One run of main() with --no-cache over a listing of one document, in    *)
(* sequential mode: the listing fetch and the document fetch, with every   *)
(* kind of HTTP outcome.                                                   *)

Pages == {[kind |-> "rows",
           rows |-> <<Descriptor(Guids[3], DocRefs[3], DOCUMENT_TYPE_FILTER)>>],
          [kind |-> "empty", rows |-> << >>]}

InitRetry ==
    /\ InitIdle
    /\ all_documents = None
    /\ pc = "start"
    /\ use_cache_cfg \in BOOLEAN
    /\ page \in Pages
    /\ retry_attempts \in 0..MaxFetchAttempts
    /\ max_workers = 1
    /\ args = [NoArgs EXCEPT !.no_cache = TRUE]
    /\ env = [get |-> AllGets, faults |-> AllFaults]
    /\ filtered_documents = << >>
    /\ start_idx = 0
    /\ end_idx = None
    /\ disk = [f \in FileNames |-> NoFile]
    /\ InitHistory

NextRetry ==
    \/ MainStart
    \/ FetchListing
    \/ MainAfterFetch
    \/ MainFilterWindow
    \/ EnterDownload
    \/ StartTask(1)
    \/ AttemptGet(1)
    \/ StreamBody(1)
    \/ Collect(1)
    \/ FinishDownload

SpecRetry == InitRetry /\ [][NextRetry]_vars

----------------------------------------------------------------------------
(* A whole run of main(), from the command line to the exit of the         *)
(* process: the cache as the run finds it, the listing fetch, the filter,  *)
(* the downloads.                                                          *)

\* the pages the portal can serve: a model with three rows of which two pass
\* the filter, an empty body, a page without "var model ="
MainPages ==
    {[kind |-> "rows",
      rows |-> <<Descriptor(Guids[1], DocRefs[1], DOCUMENT_TYPE_FILTER),
                 Descriptor(Guids[2], DocRefs[2], OtherType),
                 Descriptor(Guids[3], DocRefs[3], LateType)>>],
     [kind |-> "empty", rows |-> << >>],
     [kind |-> "nomodel", rows |-> << >>]}

\* the list an earlier run left in the cache
CachedList == <<Descriptor(Guids[3], DocRefs[3], DOCUMENT_TYPE_FILTER)>>

\* the cache file a run can find: none, a fresh one, an expired one, one cut
\* short by an interrupted write, an empty one
InitialCaches ==
    {NoCacheFile,
     CacheFileOf(json_dump(CachedList), 0),
     CacheFileOf(json_dump(CachedList), 0 - (CACHE_EXPIRY + 1)),
     CacheFileOf(SubSeq(json_dump(CachedList), 1, 3), 0),
     CacheFileOf(<< >>, 0)}

\* if __name__ == "__main__": main() -- the interpreter exits with 0 when
\* main() returns, and with 1 after an exception nothing caught
Exit ==
    /\ pc \in {"failed", "done", "crashed"}
    /\ exit_status = None
    /\ exit_status' = Some(IF pc = "crashed" THEN 1 ELSE 0)
    /\ UNCHANGED <<pc, cfgVars, cacheVars, mainVars, orchVars, disk, run, first_run,
                   initial, sanitizer>>

InitMain ==
    /\ now = 0
    /\ cache_file \in InitialCaches
    /\ cache_log = NoCacheLog
    /\ listing = NoListing
    /\ all_documents = None
    /\ batch_documents = << >>
    /\ tasks = << >>
    /\ num_threads = 0
    /\ total_downloaded = 0
    /\ failed_downloads = << >>
    /\ ret = None
    /\ run = 1
    /\ first_run = None
    /\ exit_status = None
    /\ sanitizer = NoCall
    /\ pc = "start"
    /\ use_cache_cfg \in BOOLEAN
    /\ page \in MainPages
    /\ retry_attempts \in 0..MaxRetryAttempts
    /\ max_workers = MaxWorkers
    /\ \E parallel \in BOOLEAN, no_cache \in BOOLEAN :
         args = [NoArgs EXCEPT !.parallel = parallel, !.no_cache = no_cache]
    /\ env = [get |-> {Response(200), Exception("Timeout")}, faults |-> CacheFaults]
    /\ filtered_documents = << >>
    /\ start_idx = 0
    /\ end_idx = None
    /\ disk = [f \in FileNames |-> NoFile]
    /\ InitHistory

NextMain ==
    \/ MainStart
    \/ FetchListing
    \/ MainAfterFetch
    \/ MainFilterWindow
    \/ EnterDownload
    \/ \E i \in 1..MaxTasks : StartTask(i)
    \/ \E i \in 1..MaxTasks : AttemptGet(i)
    \/ \E i \in 1..MaxTasks : StreamBody(i)
    \/ \E i \in 1..MaxTasks : Collect(i)
    \/ FinishDownload
    \/ Exit

SpecMain == InitMain /\ [][NextMain]_vars

----------------------------------------------------------------------------
(* sanitize_filename called on its own *)

NameAlphabet == {"a", "/", "?", ".", "f"}

\* names around the cut at 100 characters, with and without the extension
LongNames ==
    {Repeat("a", n) : n \in {NameLimit - 1, NameLimit, NameLimit + 1, NameLimit + 5}}
    \cup {Repeat("a", NameLimit - 4) \o PdfSuffix,
          Repeat("a", NameLimit - 3) \o PdfSuffix,
          Repeat("/", NameLimit + 1)}

\* names that end in the extension, in either letter case
PdfNames ==
    {PdfSuffix, <<".", "P", "D", "F">>, <<"a">> \o PdfSuffix,
     <<"a", ".", "P", "d", "F">>, <<"?", ".", "p", "d", "f">>}

Names ==
    ListsOf(NameAlphabet, MaxNameLen) \cup LongNames \cup PdfNames
    \cup {DocRefs[i] : i \in 1..Len(DocRefs)}

CallSanitize ==
    /\ pc = "sanitize"
    /\ sanitizer.sanitized = None
    /\ sanitizer' = [sanitizer EXCEPT !.sanitized = Some(sanitize_filename(sanitizer.name))]
    /\ UNCHANGED <<pc, cfgVars, cacheVars, mainVars, orchVars, disk, run, first_run,
                   exit_status, initial>>

InitSanitize ==
    /\ now = 0
    /\ cache_file = NoCacheFile
    /\ cache_log = NoCacheLog
    /\ listing = NoListing
    /\ all_documents = None
    /\ batch_documents = << >>
    /\ tasks = << >>
    /\ num_threads = 0
    /\ total_downloaded = 0
    /\ failed_downloads = << >>
    /\ ret = None
    /\ run = 1
    /\ first_run = None
    /\ exit_status = None
    /\ \E n \in Names : sanitizer = [name |-> n, sanitized |-> None]
    /\ pc = "sanitize"
    /\ use_cache_cfg = TRUE
    /\ page = NoPage
    /\ retry_attempts = MaxFetchAttempts
    /\ max_workers = 1
    /\ args = NoArgs
    /\ env = [get |-> {Response(200)}, faults |-> {}]
    /\ filtered_documents = << >>
    /\ start_idx = 0
    /\ end_idx = None
    /\ disk = [f \in FileNames |-> NoFile]
    /\ InitHistory

NextSanitize == CallSanitize

SpecSanitize == InitSanitize /\ [][NextSanitize]_vars

----------------------------------------------------------------------------
(* Claims about the orchestrators (specification Spec) *)

Terminated == pc \in {"done", "crashed"}

\* every fetch attempt made for task i failed, and there was one
AlwaysFails(i) ==
    /\ tasks[i].gets >= 1
    /\ tasks[i].nfail = tasks[i].gets
    /\ ~tasks[i].oserr

\* nothing went wrong for task i: no failed attempt, no file error
NothingFailed(i) == tasks[i].nfail = 0 /\ ~tasks[i].oserr

OneTaskFails(k) ==
    /\ k \in 1..Len(tasks)
    /\ AlwaysFails(k)
    /\ \A j \in 1..Len(tasks) : j # k => NothingFailed(j)

\* C1: failure isolation.  When the run has ended and exactly one task had
\* every fetch attempt fail while nothing failed for the others, the run
\* returned normally, every task was accounted for, the count is N - 1, and
\* (parallel mode) the failed list is exactly that task's reference string.
C1_FailureIsolation ==
    Terminated =>
      \A k \in 1..Len(tasks) :
        OneTaskFails(k) =>
          /\ pc = "done"
          /\ \A i \in 1..Len(tasks) : tasks[i].pc = "collected"
          /\ total_downloaded = Len(tasks) - 1
          /\ ret = Some(ReturnValue)
          /\ args.parallel => failed_downloads = <<batch_documents[k][2]>>

C1_Witness ==
    /\ pc = "done"
    /\ args.parallel
    /\ Len(tasks) = MaxTasks
    /\ OneTaskFails(2)
    /\ retry_attempts >= 2
    /\ failed_downloads = <<batch_documents[2][2]>>
    /\ total_downloaded = MaxTasks - 1

FirstRunAllSucceeded ==
    /\ run = 2
    /\ first_run[1].total = first_run[1].n

C3_NeverOverwritten ==
    [][\A f \in FileNames :
         (disk[f].exists /\ disk[f].complete) => disk'[f] = disk[f]]_vars

TaskSucceeded(i) == tasks[i].result # None /\ tasks[i].result[1].success

InList(x, l) == \E n \in 1..Len(l) : l[n] = x

\* C6: in both modes the orchestrator returns the count together with the
\* list of failed references, which holds every task that did not succeed.
C6_ReturnContract ==
    pc = "done" =>
      /\ ret[1].failed # NoList
      /\ \A i \in 1..Len(tasks) :
           ~TaskSucceeded(i) => InList(batch_documents[i][2], ret[1].failed[1])

Ended(i) == tasks[i].pc \in {"returned", "collected"}

\* no other task of the batch has the target path of task i
OwnPath(i) ==
    \A j \in 1..Len(batch_documents) :
      j # i => FileName(batch_documents[j]) # FileName(batch_documents[i])

\* C15: two tasks of a batch with different ids have different target paths,
\* and no task succeeds on a file written for another document of the batch.
C15_NoPathCollision ==
    /\ \A i, j \in 1..Len(batch_documents) :
         batch_documents[i][1] # batch_documents[j][1] =>
           FileName(batch_documents[i]) # FileName(batch_documents[j])
    /\ \A i \in 1..Len(tasks) :
         (Ended(i) /\ TaskSucceeded(i)) =>
           disk[FileName(batch_documents[i])].doc \in {batch_documents[i][1], OldFile.doc}

\* C16: a task (one that has its path to itself) ends as success with the
\* complete file at its path, or as failure with no file at its path.
C16_AllOrNothing ==
    \A i \in 1..Len(tasks) :
      (Ended(i) /\ tasks[i].result # None /\ OwnPath(i)) =>
        LET file == disk[FileName(batch_documents[i])]
        IN  IF tasks[i].result[1].success
            THEN file.exists /\ file.complete
            ELSE ~file.exists

\* the task returned at the existence check
Skipped(i) == TaskSucceeded(i) /\ tasks[i].gets = 0

\* C17: a task of download_parallel never sleeps the request delay, and in
\* neither mode does a task whose file exists.
C17_DelayByMode ==
    \A i \in 1..Len(tasks) :
      /\ args.parallel => ~tasks[i].delayed
      /\ Skipped(i) => ~tasks[i].delayed

\* C20: for every RETRY_ATTEMPTS >= 0 a task whose file does not exist ends
\* with a (success, name) pair after at least one GET, and download_sequential
\* does not abort.
C20_DefiniteOutcome ==
    /\ pc # "crashed"
    /\ \A i \in 1..Len(tasks) :
         (Ended(i) /\ ~Skipped(i)) => (tasks[i].result # None /\ tasks[i].gets >= 1)

----------------------------------------------------------------------------
(* Claims about termination (specification SpecLive) *)

\* C19: every invocation of download_sequential and download_parallel
\* terminates, and when it does every task of the batch has been given its
\* outcome (counted as downloaded or as failed).
C19_Termination ==
    <>(/\ pc = "done"
       /\ Len(tasks) = Len(filtered_documents)
       /\ \A i \in 1..Len(tasks) : tasks[i].pc = "collected")

----------------------------------------------------------------------------
(* Claims about the retry policy (specification SpecRetry) *)

\* the state of a fetch: the listing fetch, or the fetch of document i
ListingFetch == [attempt |-> listing.attempt, slept |-> listing.slept,
                 gets |-> listing.gets, nfail |-> listing.nfail,
                 status |-> listing.status,
                 over |-> pc # "start" /\ pc # "fetch",
                 success |-> listing.result # None]
DocumentFetch(i) == [attempt |-> tasks[i].attempt, slept |-> tasks[i].slept,
                     gets |-> tasks[i].gets, nfail |-> tasks[i].nfail,
                     status |-> tasks[i].status,
                     over |-> tasks[i].pc \in {"returned", "collected"},
                     success |-> TaskSucceeded(i)]
Fetches == {ListingFetch} \cup {DocumentFetch(i) : i \in 1..Len(tasks)}

\* at most N attempts; one wait of 2^k seconds after each failed attempt k
\* but the last (k counted from 0); after N failed attempts the fetch is over
\* and has reported failure
RetryPolicy(f) ==
    /\ f.gets <= retry_attempts
    /\ f.nfail <= f.gets
    /\ Len(f.slept) = Min(f.nfail, Max(retry_attempts - 1, 0))
    /\ \A k \in 1..Len(f.slept) : f.slept[k] = 2 ^ (k - 1)
    /\ f.attempt = Len(f.slept)
    /\ (retry_attempts >= 1 /\ f.nfail = retry_attempts) => (f.over /\ ~f.success)

\* the last GET was answered with a status outside 200..299
LastNon2xx(f) ==
    f.status.kind = "response" /\ ~(f.status.status >= 200 /\ f.status.status < 300)

\* the last GET was answered with a 4xx or 5xx status
LastErrorStatus(f) ==
    f.status.kind = "response" /\ f.status.status >= 400 /\ f.status.status < 600

\* the attempt of the last GET was a failed one: every attempt so far failed
LastAttemptFailed(f) == f.nfail = f.gets

\* C4 as stated: the retry policy, with every non-2xx status a failed attempt.
C4_RetryPolicy_Stated ==
    \A f \in Fetches :
      /\ RetryPolicy(f)
      /\ LastNon2xx(f) => LastAttemptFailed(f)

\* C4, amended: the retry policy, with every 4xx or 5xx status a failed
\* attempt (a 3xx answer that is not a redirect is taken as the document).
C4_RetryPolicy ==
    \A f \in Fetches :
      /\ RetryPolicy(f)
      /\ LastErrorStatus(f) => LastAttemptFailed(f)

\* both fetches failed twice, waited 1 s and 2 s, and succeeded the third time
C4_Witness ==
    /\ retry_attempts = 3
    /\ pc = "done"
    /\ \A f \in Fetches :
         f.slept = <<1, 2>> /\ f.gets = 3 /\ f.nfail = 2 /\ f.success
    /\ Len(tasks) = 1

----------------------------------------------------------------------------
(* Claims about the batch window (specification SpecWindow) *)

\* --start and --end name indices: neither is negative
IndexArgs == args.start >= 0 /\ (args.end = None \/ args.end[1] >= 0)

\* the end of the window the claims describe
EffectiveEnd ==
    LET length == Len(filtered_documents)
    IN  IF args.end # None THEN Min(args.end[1], length)
        ELSE IF args.batch > 0 THEN Min(args.start + args.batch, length)
        ELSE length

\* C7: with index arguments, the end computed for an unset --end and a batch
\* size > 0 is min(start + batch, L), and the tasks are exactly the elements
\* at indices [start, effective end) in their order.
C7_BatchWindow ==
    (pc = "downloading" /\ IndexArgs) =>
      /\ (args.end = None /\ args.batch > 0) =>
            end_idx = Some(Min(args.start + args.batch, Len(filtered_documents)))
      /\ Len(batch_documents) = Max(EffectiveEnd - args.start, 0)
      /\ Len(tasks) = Len(batch_documents)
      /\ \A k \in 1..Len(batch_documents) :
            batch_documents[k] = filtered_documents[args.start + k]

C7_Witness ==
    /\ pc = "downloading"
    /\ Len(filtered_documents) = ExampleLen
    /\ args.start = ExampleStart
    /\ args.batch = ExampleBatch
    /\ end_idx = Some(ExampleStart + ExampleBatch)
    /\ Len(batch_documents) = ExampleBatch
    /\ batch_documents[1] = filtered_documents[ExampleStart + 1]

\* C8: every window the run acts on has 0 <= start <= end <= length (the end
\* taken after clamping); a start beyond the length or beyond the end never
\* gets as far as the download.
C8_WindowValid ==
    (pc = "downloading" /\ IndexArgs) =>
      /\ start_idx <= Len(filtered_documents)
      /\ start_idx <= EffectiveEnd

----------------------------------------------------------------------------
(* Claims about the cache (specification SpecCache) *)

Loaded == cache_log.load # None
LastLoad == cache_log.load[1]

\* C9 as stated: load returns the list only when the age of the file is
\* below the expiry.
C9_CacheValidity_Stated ==
    (Loaded /\ LastLoad.result # None) => LastLoad.age < CACHE_EXPIRY

\* C9, amended: load returns the list only when the age of the file is not
\* above the expiry; an older cache is treated as absent.
C9_CacheValidity ==
    Loaded =>
      /\ LastLoad.result # None => (LastLoad.exists /\ LastLoad.age <= CACHE_EXPIRY)
      /\ (LastLoad.exists /\ LastLoad.age > CACHE_EXPIRY) => LastLoad.result = None

\* a completed save, then a load after the expiry: the cache counts as absent
C9_Witness ==
    /\ Loaded
    /\ cache_log.saved # None
    /\ LastLoad.read_ok
    /\ LastLoad.age = CACHE_EXPIRY + 1
    /\ LastLoad.result = None

\* C10: with caching enabled, a load that follows a completed save of D
\* within the expiry window, and can read the file, returns D.
C10_CacheRoundTrip ==
    (Loaded /\ cache_log.saved # None /\ LastLoad.read_ok
       /\ LastLoad.age <= CACHE_EXPIRY) =>
      LastLoad.result = Some(cache_log.saved[1])

C10_Witness ==
    /\ Loaded
    /\ cache_log.saved # None
    /\ Len(cache_log.saved[1]) = MaxDocs
    /\ LastLoad.age = CACHE_EXPIRY - 1
    /\ LastLoad.result = Some(cache_log.saved[1])

C10_WitnessEmpty ==
    /\ Loaded
    /\ cache_log.saved = Some(<< >>)
    /\ LastLoad.result = Some(<< >>)

\* C18: whatever a save left behind, the whole text or a part of it, what
\* load_document_cache can get from the file is nothing or a list that a
\* save wrote completely: a file that parses holds exactly the last list
\* saved in full, and load returns no other list.
C18_AtomicCacheWrite ==
    /\ (cache_file.exists /\ json_load(cache_file.content).ok) =>
         /\ cache_log.saved = Some(json_load(cache_file.content).val)
         /\ cache_file.content = json_dump(cache_log.saved[1])
    /\ (Loaded /\ LastLoad.result # None) =>
         /\ cache_log.saved # None
         /\ LastLoad.result = cache_log.saved

\* a save stopped part-way through the text, and a load inside the expiry
\* window that could read the file returned None
C18_Witness ==
    /\ cache_file.exists
    /\ Len(cache_file.content) >= 2
    /\ Len(cache_file.content) < Len(json_dump(<<Descriptor(Guids[1], DocRefs[1], DOCUMENT_TYPE_FILTER)>>))
    /\ ~json_load(cache_file.content).ok
    /\ Loaded
    /\ LastLoad.read_ok
    /\ LastLoad.age <= CACHE_EXPIRY
    /\ LastLoad.result = None

----------------------------------------------------------------------------
(* Claims about a whole run (specification SpecMain) *)

\* the file is there and json.load raises on it
Corrupt(file) == file.exists /\ ~json_load(file.content).ok

\* the cache gave main() nothing: caching is off, or the file is absent,
\* unreadable or corrupt
CacheMiss ==
    \/ ~use_cache
    \/ ~initial.cache_file.exists
    \/ Corrupt(initial.cache_file)
    \/ (Loaded /\ ~LastLoad.read_ok)

\* the run is at the listing fetch, or past a fetch that brought a page
WentToFetch ==
    \/ pc \in {"fetch", "fetched", "failed"}
    \/ ~Falsy(listing.result)

\* the run fetched a page and went on from it
PastFetch ==
    /\ pc \notin {"start", "fetch", "fetched", "failed"}
    /\ ~Falsy(listing.result)

\* C11: cache errors are never fatal.  load_document_cache returns None for
\* an absent, unreadable or corrupt file (and is not called with caching
\* off), the run then goes to the listing fetch, and whatever
\* save_document_cache does to the file the run goes on with the documents of
\* the fetched page, filters them and downloads them as without a cache.
C11_CacheNeverFatal ==
    /\ Loaded =>
         ((~LastLoad.exists \/ ~LastLoad.read_ok \/ Corrupt(initial.cache_file))
            => LastLoad.result = None)
    /\ ~use_cache => (~Loaded /\ cache_file = initial.cache_file)
    /\ (pc # "start" /\ CacheMiss) => WentToFetch
    /\ PastFetch =>
         /\ all_documents = Some(extract_document_data(page))
         /\ pc # "filter" =>
               filtered_documents = FilterDocuments(extract_document_data(page))
         /\ pc \in {"downloading", "done"} =>
               batch_documents = FilterDocuments(extract_document_data(page))

\* the run found a cache file cut short, fetched the listing, failed to save
\* it, and downloaded the documents of the page
C11_Witness ==
    /\ pc = "done"
    /\ use_cache
    /\ Corrupt(initial.cache_file)
    /\ Len(initial.cache_file.content) >= 1
    /\ cache_file # initial.cache_file
    /\ Corrupt(cache_file)
    /\ total_downloaded >= 1

\* the listing fetch is over and brought nothing (a run served by the cache
\* never fetched)
ListingFailed ==
    /\ pc \notin {"start", "fetch"}
    /\ listing.result = None
    /\ ~(Loaded /\ LastLoad.result # None)

\* C12: a failed listing fetch ends the run.  The run stops at the reported
\* error, starts no download task and issues no document GET, and leaves the
\* cache file and the download directory as it found them.
C12_ListingFailureFatal ==
    ListingFailed =>
      /\ pc \in {"fetched", "failed"}
      /\ all_documents = None
      /\ tasks = << >>
      /\ ret = None
      /\ cache_file = initial.cache_file
      /\ disk = initial.disk
      /\ exit_status # None => pc = "failed"

\* every configured attempt at the listing failed and the process exited
C12_Witness ==
    /\ pc = "failed"
    /\ exit_status # None
    /\ retry_attempts = MaxRetryAttempts
    /\ listing.gets = retry_attempts
    /\ listing.nfail = listing.gets
    /\ use_cache
    /\ initial.cache_file.exists

\* C13: the exit status tells a run that gave up on the listing fetch from a
\* run that completed: the latter exits with 0 (main() returned at its end),
\* so the former exits with something else.
C13_ExitStatus ==
    exit_status # None =>
      /\ pc = "done" => exit_status[1] = 0
      /\ pc = "failed" => exit_status[1] # 0

\* the page arrived and extract_document_data found no rows in it: no
\* "var model =", JSON that does not parse, or no 'Rows'
ExtractionFailed ==
    /\ PastFetch
    /\ listing.result[1].kind # "rows"

\* C21: when extraction fails the cache is left unchanged for a later run: a
\* load inside the expiry window returns what it would have returned from the
\* file the run found, and not an empty list written in place of a listing.
C21_NoCachePoisoning ==
    ExtractionFailed =>
      /\ load_document_cache(cache_file, now, TRUE)
           = load_document_cache(initial.cache_file, now, TRUE)
      /\ ~(cache_file # initial.cache_file /\ cache_file.content = json_dump(<< >>))

----------------------------------------------------------------------------
(* Claims about the sanitizer (specification SpecSanitize) *)

\* C14: the name sanitize_filename returns is 1 to 104 characters, none of
\* them one of \ / * ? : " < > |, followed by the suffix ".pdf".
C14_Sanitizer ==
    sanitizer.sanitized # None =>
      LET out == sanitizer.sanitized[1]
      IN  /\ Len(out) >= 1 + Len(PdfSuffix)
          /\ Len(out) <= NameLimit + 4 + Len(PdfSuffix)
          /\ EndsWith(out, PdfSuffix)
          /\ \A i \in 1..(Len(out) - Len(PdfSuffix)) : out[i] \notin InvalidChars

====
